---- MODULE Spec2Model ----
(***************************************************************************)
(* Model of mlp.py: the experiment scheduler (module level, lines 254-297) *)
(* the worker pool it dispatches to, and the Trainer run `mlp` (lines      *)
(* 119-234) executed by each pool worker.                                  *)
(*                                                                         *)
(* Numbers.  Command line floats that the program truncates with int()     *)
(* (-batch, -generations) are kept in units of 1/FloatUnit, so that the    *)
(* truncation is a real operation.  Weights, learning rates and momentum   *)
(* are exact rationals <<n, d>> with d > 0 in lowest terms.  One entry of  *)
(* the weight matrices is tracked: lines 203-206 act elementwise.          *)
(***************************************************************************)
EXTENDS Integers, Sequences, FiniteSets, TLC

\* ------------------------------------------------------------------ bounds
MaxSamples == 3        \* largest training set of the update specification
MaxGen == 2            \* largest finite -generations value (whole generations)
MaxInterrupts == 1     \* interrupts delivered to the workers in one execution
MaxThreads == 2        \* largest -threads value
MaxListLen == 2        \* longest -ratio / -batch / -hidden list

\* ------------------------------------------------------------- arithmetic
FloatUnit == 2         \* resolution of the truncated floats: 1/FloatUnit
Inf == 1000000
NegInf == -1000000
Unbound == NegInf - 1  \* marks a local variable that was never assigned

Abs(x) == IF x < 0 THEN -x ELSE x

RECURSIVE GCD(_, _)
GCD(a, b) == IF b = 0 THEN a ELSE GCD(b, a % b)

Norm(n, d) ==
    LET g == GCD(Abs(n), d)
    IN  IF n = 0 THEN <<0, 1>> ELSE <<n \div g, d \div g>>

RAdd(x, y) == Norm(x[1] * y[2] + y[1] * x[2], x[2] * y[2])
RSub(x, y) == Norm(x[1] * y[2] - y[1] * x[2], x[2] * y[2])
RMul(x, y) == Norm(x[1] * y[1], x[2] * y[2])
RDivInt(x, k) == Norm(x[1], x[2] * k)
Zero == <<0, 1>>

\* int(x) of a float kept in units of 1/FloatUnit: truncation toward zero.
IntOf(x) == IF x >= 0 THEN x \div FloatUnit ELSE -((-x) \div FloatUnit)

\* ------------------------------------------------------------------ state
VARIABLES
    args,         \* the parsed command line (argparse namespace, line 254)
    fs,           \* the input files: fs.input, fs.validate (sequences of samples)
    saved,        \* the result files written so far: file name -> lines
    console,      \* the status lines printed so far
    spc,          \* the Scheduler's position in the module-level code
    experiments,  \* line 262
    train,        \* line 270, the parent's list
    validate,     \* line 270 / 274
    handler,      \* the parent's SIGINT disposition
    tasks,        \* the pool's task list: position -> state of the task
    lock,         \* mlp_globals['lock']: 0 when free, else the holding worker
    tr,           \* worker -> the locals of its process and of its mlp call
    intr,         \* interrupts still to be delivered
    draws,        \* the values the random draws and the deltas can take
    started       \* history: the arguments of every mlp call, in call order

vars == <<args, fs, saved, console, spc, experiments, train, validate,
          handler, tasks, lock, tr, intr, draws, started>>

Workers == 1 .. args.threads

\* ------------------------------------------------- experiment list (256-285)
\* `x or [ default ]` on a list: the list unless it is empty.
OrDefault(list, default) == IF Len(list) = 0 THEN <<default>> ELSE list

Params(a) ==
    << OrDefault(a.ratio, a.default_ratio),
       OrDefault(a.batch, a.default_batch),
       OrDefault(a.hidden, a.default_hidden) >>

\* itertools.product(*params): the last list varies fastest.
Product(p) ==
    LET nb == Len(p[2])
        nh == Len(p[3])
    IN  [ k \in 1 .. Len(p[1]) * nb * nh |->
            << p[1][((k - 1) \div (nb * nh)) + 1],
               p[2][(((k - 1) \div nh) % nb) + 1],
               p[3][((k - 1) % nh) + 1] >> ]

\* lines 262-267
BuildExperiments(p) ==
    IF \A i \in 1 .. 3 : Len(p[i]) = 1
    THEN << << p[1][1], p[2][1], p[3][1] >> >>
    ELSE Product(p)

\* Variant of the filter that forgets to record what it has seen.
RECURSIVE DedupFrom_NoAdd(_, _, _)
DedupFrom_NoAdd(list, i, unique) ==
    IF i > Len(list) THEN << >>
    ELSE IF list[i] \in unique
         THEN DedupFrom_NoAdd(list, i + 1, unique)
         ELSE << list[i] >> \o DedupFrom_NoAdd(list, i + 1, unique)

\* lines 284-285: keep e unless it is already in `unique`, adding it otherwise.
RECURSIVE DedupFrom(_, _, _)
DedupFrom(list, i, unique) ==
    IF i > Len(list) THEN << >>
    ELSE IF list[i] \in unique
         THEN DedupFrom(list, i + 1, unique)
         ELSE << list[i] >> \o DedupFrom(list, i + 1, unique \cup { list[i] })

Dedup(list) == DedupFrom(list, 1, {})

\* read_csv (29-44): one sample per line, in document order.
ReadCsv(file) == file

\* ------------------------------------------------------------ Trainer: mlp
\* Rationals compared by cross multiplication (denominators are positive).
RLeq(x, y) == x[1] * y[2] <= y[1] * x[2]

\* error (107-115): count / len(data), count the misclassified samples.  The
\* classification depends on the randomly drawn weights: any count can occur.
ErrorRates(data) == { Norm(c, Len(data)) : c \in 0 .. Len(data) }

\* np.random.randn (144-147): the draws for the tracked weight entry.
InitWeightVals == draws.weights

\* delta (76-83): the tracked entry of one sample's weight delta.  It depends on
\* the sample and on the current weights: any of the values can occur.
DeltaVals == draws.deltas

\* Variant of the shuffle that draws every position independently.
Shuffles_Resampled(list) ==
    { [ i \in 1 .. Len(list) |-> list[f[i]] ] :
        f \in [ 1 .. Len(list) -> 1 .. Len(list) ] }

\* np.random.shuffle (191): any reordering of the list, in place.
Shuffles(list) ==
    { [ i \in 1 .. Len(list) |-> list[f[i]] ] :
        f \in { g \in [ 1 .. Len(list) -> 1 .. Len(list) ] :
                  \A a, b \in 1 .. Len(list) : a # b => g[a] # g[b] } }

\* Variant of the update that subtracts the summed instead of the mean delta.
NewWeights_NoMean(weights, old, momentum, ratio, accum, batch_size) ==
    RAdd(weights, RSub(RMul(momentum, old), RMul(ratio, accum)))

\* Variant of the update with the momentum on the last weight change.
NewWeights_Velocity(weights, old, momentum, ratio, accum, batch_size) ==
    RAdd(weights, RSub(RMul(momentum, RSub(weights, old)),
                       RMul(ratio, RDivInt(accum, batch_size))))

\* lines 203-206
NewWeights(weights, old, momentum, ratio, accum, batch_size) ==
    RAdd(weights, RSub(RMul(momentum, old),
                       RMul(ratio, RDivInt(accum, batch_size))))

\* Variant of the test that updates only at the end of the sweep.
UpdateDue_SweepEnd(batch_size, batch, j, len) == j = len

\* line 201
UpdateDue(batch_size, batch, j, len) == batch_size = batch \/ j = len

\* Variant of the truncation that rounds a finite batch size up.
BatchOf_RoundUp(batch) ==
    IF batch # Inf THEN (batch + FloatUnit - 1) \div FloatUnit ELSE batch

\* lines 127-128
BatchOf(batch) == IF batch # Inf THEN IntOf(batch) ELSE batch

\* lines 130-131: `generations` is assigned only for a finite argument.
GenerationsOf(generations) ==
    IF generations # Inf THEN IntOf(generations) ELSE Unbound

\* Variant of the loop test that admits one generation too many.
LoopTest_OffByOne(gen, generations) ==
    IF generations = Unbound THEN "UnboundLocalError"
    ELSE IF gen <= generations THEN "enter" ELSE "exit"

\* line 153: the loop test; reading the unassigned local raises.
LoopTest(gen, generations) ==
    IF generations = Unbound THEN "UnboundLocalError"
    ELSE IF gen < generations THEN "enter" ELSE "exit"

\* Variant of the convergence test with a strict comparison.
Converged_Strict(validate_error, stop) ==
    validate_error[1] * stop[2] < stop[1] * validate_error[2]

\* line 163
Converged(validate_error, stop) == RLeq(validate_error, stop)

\* lines 218-220: the result file's name.
FileName(ratio, batch, hidden) == << ratio, batch, hidden >>

\* line 217
SaveDue(save, train_errors) == save /\ Len(train_errors) > 0

\* lines 222-226: the lines of the result file.
FileLines(train_errors, validate_errors, validating) ==
    IF validating THEN << train_errors, validate_errors >>
    ELSE << train_errors >>

\* Variant in which the try statement ends before the sweep.
InTry_BeforeSweep == { "loop", "eval", "append_v", "append_t", "iter_lock",
                       "iter_print", "shuffle" }

\* The positions of mlp between `try:` (152) and `except` (214).
InTry == { "loop", "eval", "append_v", "append_t", "iter_lock", "iter_print",
           "shuffle", "sweep", "update" }

\* The positions of a worker process that is not executing mlp: not yet forked,
\* waiting for a task, reporting a result or an exception, or terminated.
NotInMlp == { "unborn", "idle", "return", "raised", "dead" }

\* What a pool worker process holds before it has run any task.
Fresh(tn, vl) ==
    [ pc |-> "idle", pos |-> -1, size |-> 0,
      ratio |-> Zero, batch |-> 0, hidden |-> 0, generations |-> 0,
      train_errors |-> << >>, validate_errors |-> << >>,
      weights |-> Zero, old |-> Zero, gen |-> 0,
      train_error |-> Zero, validate_error |-> Zero,
      batch_size |-> 0, accum |-> Zero, j |-> 0,
      train |-> tn, validate |-> vl,
      exc |-> "none", exit |-> "none",
      deltas |-> << >>, upds |-> << >> ]

\* --------------------------------------------------- Scheduler (254-297)
\* lines 256-267
SBuild ==
    /\ spc = "params"
    /\ experiments' = BuildExperiments(Params(args))
    /\ spc' = "read"
    /\ UNCHANGED <<args, fs, saved, console, train, validate, handler, tasks,
                   lock, tr, intr, draws, started>>

\* lines 269-282
SRead ==
    /\ spc = "read"
    /\ train' = ReadCsv(fs.input)
    /\ validate' = IF args.validate THEN ReadCsv(fs.validate)
                   ELSE ReadCsv(fs.input)
    /\ spc' = "dedup"
    /\ UNCHANGED <<args, fs, saved, console, experiments, handler, tasks,
                   lock, tr, intr, draws, started>>

\* lines 284-285
SDedup ==
    /\ spc = "dedup"
    /\ experiments' = Dedup(experiments)
    /\ spc' = "pool"
    /\ UNCHANGED <<args, fs, saved, console, train, validate, handler, tasks,
                   lock, tr, intr, draws, started>>

\* line 287: the worker processes are forked with the parent's memory.
SPool ==
    /\ spc = "pool"
    /\ tr' = [ w \in Workers |-> Fresh(train, validate) ]
    /\ spc' = "map"
    /\ UNCHANGED <<args, fs, saved, console, experiments, train, validate,
                   handler, tasks, lock, intr, draws, started>>

\* lines 288-291: one task per experiment, chunk size 1.
SMap ==
    /\ spc = "map"
    /\ tasks' = [ i \in 1 .. Len(experiments) |-> "queued" ]
    /\ spc' = "sigign"
    /\ UNCHANGED <<args, fs, saved, console, experiments, train, validate,
                   handler, lock, tr, intr, draws, started>>

\* line 293
SSigIgn ==
    /\ spc = "sigign"
    /\ handler' = "ignore"
    /\ spc' = "wait"
    /\ UNCHANGED <<args, fs, saved, console, experiments, train, validate,
                   tasks, lock, tr, intr, draws, started>>

\* Variant of the wait that is satisfied by the first result.
AllReported_Any(ts) == \E i \in 1 .. Len(ts) : ts[i] \in { "ok", "failed" }

\* The map result is ready once every task has reported a result.
AllReported(ts) == \A i \in 1 .. Len(ts) : ts[i] \in { "ok", "failed" }

\* line 295
SWait ==
    /\ spc = "wait"
    /\ AllReported(tasks)
    /\ spc' = "print"
    /\ UNCHANGED <<args, fs, saved, console, experiments, train, validate,
                   handler, tasks, lock, tr, intr, draws, started>>

\* line 297
SDone ==
    /\ spc = "print"
    /\ console' = console \cup { << "done" >> }
    /\ spc' = "exit"
    /\ UNCHANGED <<args, fs, saved, experiments, train, validate, handler,
                   tasks, lock, tr, intr, draws, started>>

\* ------------------------------------------------------------ pool worker
\* Variant of the queue that serves the task queued last.
NextTask_Last(ts) ==
    IF \E i \in 1 .. Len(ts) : ts[i] = "queued"
    THEN CHOOSE i \in 1 .. Len(ts) :
            ts[i] = "queued" /\ \A k \in i + 1 .. Len(ts) : ts[k] # "queued"
    ELSE 0

\* The task a worker takes next: the first one still queued.
NextTask(ts) ==
    IF \E i \in 1 .. Len(ts) : ts[i] = "queued"
    THEN CHOOSE i \in 1 .. Len(ts) :
            ts[i] = "queued" /\ \A k \in 1 .. i - 1 : ts[k] # "queued"
    ELSE 0

\* An idle worker takes the next task and calls mlp(( e, pos, size )); line 120.
Take(w) ==
    /\ tr[w].pc = "idle"
    /\ NextTask(tasks) # 0
    /\ LET i == NextTask(tasks)
           e == experiments[i]
       IN  /\ tasks' = [ tasks EXCEPT ![i] = "running" ]
           /\ tr' = [ tr EXCEPT ![w] =
                        [ Fresh(tr[w].train, tr[w].validate) EXCEPT
                            !.pc = "start", !.pos = i - 1,
                            !.size = Len(experiments),
                            !.ratio = e[1], !.batch = e[2], !.hidden = e[3] ] ]
           /\ started' = Append(started,
                                [ e |-> e, pos |-> i - 1, size |-> Len(experiments) ])
    /\ UNCHANGED <<args, fs, saved, console, spc, experiments, train, validate,
                   handler, lock, intr, draws>>

\* mlp returned: the worker reports the result and is idle again.
Complete(w) ==
    /\ tr[w].pc = "return"
    /\ tasks' = [ tasks EXCEPT ![tr[w].pos + 1] = "ok" ]
    /\ tr' = [ tr EXCEPT ![w].pc = "idle" ]
    /\ UNCHANGED <<args, fs, saved, console, spc, experiments, train, validate,
                   handler, lock, intr, draws, started>>

\* mlp raised.  The pool's worker loop catches Exception and reports it as the
\* task's result; a KeyboardInterrupt is not an Exception: it ends the worker
\* process and the task never reports.
Fail(w) ==
    /\ tr[w].pc = "raised"
    /\ IF tr[w].exc = "KeyboardInterrupt"
       THEN /\ tasks' = [ tasks EXCEPT ![tr[w].pos + 1] = "lost" ]
            /\ tr' = [ tr EXCEPT ![w].pc = "dead" ]
       ELSE /\ tasks' = [ tasks EXCEPT ![tr[w].pos + 1] = "failed" ]
            /\ tr' = [ tr EXCEPT ![w].pc = "idle" ]
    /\ UNCHANGED <<args, fs, saved, console, spc, experiments, train, validate,
                   handler, lock, intr, draws, started>>

\* ------------------------------------------------------- mlp, step by step
sched == <<args, fs, spc, experiments, train, validate, handler, tasks, intr,
          draws, started>>

\* lines 122-133: the globals are read and the two arguments truncated.
Start(w) ==
    /\ tr[w].pc = "start"
    /\ tr' = [ tr EXCEPT
                 ![w].batch = BatchOf(@),
                 ![w].generations = GenerationsOf(args.generations),
                 ![w].pc = IF args.dump THEN "start_lock" ELSE "init" ]
    /\ UNCHANGED <<sched, saved, console, lock>>

\* line 134: `with lock:` blocks until the lock is free.
StartLock(w) ==
    /\ tr[w].pc = "start_lock"
    /\ lock = 0
    /\ lock' = w
    /\ tr' = [ tr EXCEPT ![w].pc = "start_print" ]
    /\ UNCHANGED <<sched, saved, console>>

\* lines 135-137: the start line, and the lock released on leaving the block.
StartPrint(w) ==
    /\ tr[w].pc = "start_print"
    /\ console' = console \cup
         { << "STARTING", tr[w].ratio, tr[w].batch, tr[w].hidden,
              tr[w].pos + 1, tr[w].size >> }
    /\ lock' = 0
    /\ tr' = [ tr EXCEPT ![w].pc = "init" ]
    /\ UNCHANGED <<sched, saved>>

\* lines 139-150
InitRun(w) ==
    /\ tr[w].pc = "init"
    /\ \E w0 \in InitWeightVals :
         tr' = [ tr EXCEPT
                   ![w].train_errors = << >>, ![w].validate_errors = << >>,
                   ![w].weights = w0, ![w].old = w0,
                   ![w].gen = 0, ![w].pc = "loop" ]
    /\ UNCHANGED <<sched, saved, console, lock>>

\* Variant of the loop head that does not count the generation.
Loop_NoIncrement(w) ==
    /\ tr[w].pc = "loop"
    /\ LET t == LoopTest(tr[w].gen, tr[w].generations)
       IN  tr' = [ tr EXCEPT ![w] =
                CASE t = "enter" -> [ @ EXCEPT !.pc = "eval" ]
                  [] t = "exit"  -> [ @ EXCEPT !.exit = "exhausted", !.pc = "save" ]
                  [] OTHER       -> [ @ EXCEPT !.exc = t, !.pc = "raised" ] ]
    /\ UNCHANGED <<sched, saved, console, lock>>

\* lines 153-154
Loop(w) ==
    /\ tr[w].pc = "loop"
    /\ LET t == LoopTest(tr[w].gen, tr[w].generations)
       IN  tr' = [ tr EXCEPT ![w] =
                CASE t = "enter" -> [ @ EXCEPT !.gen = @ + 1, !.pc = "eval" ]
                  [] t = "exit"  -> [ @ EXCEPT !.exit = "exhausted", !.pc = "save" ]
                  [] OTHER       -> [ @ EXCEPT !.exc = t, !.pc = "raised" ] ]
    /\ UNCHANGED <<sched, saved, console, lock>>

\* lines 156-171: the error rates, the convergence test, the costs.
Eval(w) ==
    /\ tr[w].pc = "eval"
    /\ \E te \in ErrorRates(tr[w].train) :
       \E ve \in IF args.validate THEN ErrorRates(tr[w].validate) ELSE { te } :
         tr' = [ tr EXCEPT
                   ![w].train_error = te, ![w].validate_error = ve,
                   ![w].exit = IF Converged(ve, args.stop) THEN "converged" ELSE @,
                   ![w].pc = IF Converged(ve, args.stop) THEN "save"
                             ELSE IF args.validate THEN "append_v"
                             ELSE "append_t" ]
    /\ UNCHANGED <<sched, saved, console, lock>>

\* lines 173-174
AppendValidate(w) ==
    /\ tr[w].pc = "append_v"
    /\ tr' = [ tr EXCEPT
                 ![w].validate_errors = Append(@, tr[w].validate_error),
                 ![w].pc = "append_t" ]
    /\ UNCHANGED <<sched, saved, console, lock>>

\* lines 176-178
AppendTrain(w) ==
    /\ tr[w].pc = "append_t"
    /\ tr' = [ tr EXCEPT
                 ![w].train_errors = Append(@, tr[w].train_error),
                 ![w].pc = IF args.dump THEN "iter_lock" ELSE "shuffle" ]
    /\ UNCHANGED <<sched, saved, console, lock>>

\* line 179
IterLock(w) ==
    /\ tr[w].pc = "iter_lock"
    /\ lock = 0
    /\ lock' = w
    /\ tr' = [ tr EXCEPT ![w].pc = "iter_print" ]
    /\ UNCHANGED <<sched, saved, console>>

\* lines 180-186
IterPrint(w) ==
    /\ tr[w].pc = "iter_print"
    /\ console' = console \cup
         { << "ITERATION", tr[w].ratio, tr[w].batch, tr[w].hidden,
              tr[w].pos + 1, tr[w].size, tr[w].gen, tr[w].generations,
              tr[w].validate_error, tr[w].train_error >> }
    /\ lock' = 0
    /\ tr' = [ tr EXCEPT ![w].pc = "shuffle" ]
    /\ UNCHANGED <<sched, saved>>

\* lines 188-193: the accumulator reset, the list shuffled, the sweep begun.
\* Without a validation file `validate` is the same list object as `train`
\* (line 270) and is reordered with it.
Shuffle(w) ==
    /\ tr[w].pc = "shuffle"
    /\ \E perm \in Shuffles(tr[w].train) :
         tr' = [ tr EXCEPT
                   ![w].batch_size = 0, ![w].accum = Zero,
                   ![w].train = perm, ![w].j = 0,
                   ![w].validate = IF args.validate THEN @ ELSE perm,
                   ![w].deltas = << >>, ![w].upds = << >>,
                   ![w].pc = IF Len(perm) = 0 THEN "loop" ELSE "sweep" ]
    /\ UNCHANGED <<sched, saved, console, lock>>

\* lines 193-201: one sample of the sweep; j counts the samples taken.
Sweep(w) ==
    /\ tr[w].pc = "sweep"
    /\ \E d \in DeltaVals :
         tr' = [ tr EXCEPT
                   ![w].accum = RAdd(@, d),
                   ![w].batch_size = @ + 1,
                   ![w].j = @ + 1,
                   ![w].deltas = Append(@, d),
                   ![w].pc = IF UpdateDue(tr[w].batch_size + 1, tr[w].batch,
                                          tr[w].j + 1, Len(tr[w].train))
                             THEN "update" ELSE "sweep" ]
    /\ UNCHANGED <<sched, saved, console, lock>>

\* lines 203-212
Update(w) ==
    /\ tr[w].pc = "update"
    /\ LET new_weights ==
              NewWeights(tr[w].weights, tr[w].old, args.momentum, tr[w].ratio,
                         tr[w].accum, tr[w].batch_size)
       IN  tr' = [ tr EXCEPT
                     ![w].old = tr[w].weights,
                     ![w].weights = new_weights,
                     ![w].batch_size = 0,
                     ![w].accum = Zero,
                     ![w].upds = Append(@,
                         [ weights |-> tr[w].weights, old |-> tr[w].old,
                           accum |-> tr[w].accum, count |-> tr[w].batch_size,
                           upto |-> tr[w].j, new_weights |-> new_weights ]),
                     ![w].pc = IF tr[w].j = Len(tr[w].train) THEN "loop"
                               ELSE "sweep" ]
    /\ UNCHANGED <<sched, saved, console, lock>>

\* lines 217-228
Save(w) ==
    /\ tr[w].pc = "save"
    /\ saved' =
         IF SaveDue(args.save, tr[w].train_errors)
         THEN [ f \in DOMAIN saved \cup
                      { FileName(tr[w].ratio, tr[w].batch, tr[w].hidden) } |->
                  IF f = FileName(tr[w].ratio, tr[w].batch, tr[w].hidden)
                  THEN FileLines(tr[w].train_errors, tr[w].validate_errors,
                                 args.validate)
                  ELSE saved[f] ]
         ELSE saved
    /\ tr' = [ tr EXCEPT ![w].pc = IF args.dump THEN "end_lock" ELSE "return" ]
    /\ UNCHANGED <<sched, console, lock>>

\* line 229
EndLock(w) ==
    /\ tr[w].pc = "end_lock"
    /\ lock = 0
    /\ lock' = w
    /\ tr' = [ tr EXCEPT ![w].pc = "end_print" ]
    /\ UNCHANGED <<sched, saved, console>>

\* lines 230-234
EndPrint(w) ==
    /\ tr[w].pc = "end_print"
    /\ console' = console \cup
         { << "ENDING", tr[w].ratio, tr[w].batch, tr[w].hidden,
              tr[w].pos + 1, tr[w].size, tr[w].gen >> }
    /\ lock' = 0
    /\ tr' = [ tr EXCEPT ![w].pc = "return" ]
    /\ UNCHANGED <<sched, saved>>

\* Variant in which an exception leaves a print without releasing the lock.
WithExit_Kept(holder, w) == holder

\* lines 134, 179, 229: leaving a `with lock:` body by an exception releases
\* the lock the worker holds.
WithExit(holder, w) == IF holder = w THEN 0 ELSE holder

\* SIGINT delivered to a worker that is inside mlp: KeyboardInterrupt is raised
\* at its current position.  A `with lock:` body is left through __exit__; inside
\* the try statement the exception is caught (214-215), elsewhere it leaves mlp.
Interrupt(w) ==
    /\ intr > 0
    /\ tr[w].pc \notin NotInMlp
    /\ intr' = intr - 1
    /\ lock' = WithExit(lock, w)
    /\ tr' = [ tr EXCEPT ![w] =
                 IF tr[w].pc \in InTry
                 THEN [ @ EXCEPT !.exit = "interrupted", !.pc = "save" ]
                 ELSE [ @ EXCEPT !.exc = "KeyboardInterrupt", !.pc = "raised" ] ]
    /\ UNCHANGED <<args, fs, spc, experiments, train, validate, handler, tasks,
                   saved, console, draws, started>>

\* SIGINT delivered to the Scheduler process.  Until line 293 the disposition
\* is Python's default: KeyboardInterrupt ends the module-level code, and the
\* exiting process terminates the workers of its pool.  From line 293 on the
\* signal is ignored.
SInterrupt ==
    /\ intr > 0
    /\ spc \notin { "exit", "killed" }
    /\ intr' = intr - 1
    /\ IF handler = "default"
       THEN /\ spc' = "killed"
            /\ tr' = [ w \in Workers |->
                         IF tr[w].pc = "unborn" THEN tr[w]
                         ELSE [ tr[w] EXCEPT !.pc = "dead" ] ]
       ELSE UNCHANGED <<spc, tr>>
    /\ UNCHANGED <<args, fs, saved, console, experiments, train, validate,
                   handler, tasks, lock, draws, started>>

Next ==
    \/ SBuild \/ SRead \/ SDedup \/ SPool \/ SMap \/ SSigIgn \/ SWait \/ SDone
    \/ \E w \in Workers : Take(w)
    \/ \E w \in Workers : Complete(w)
    \/ \E w \in Workers : Fail(w)
    \/ \E w \in Workers : Start(w)
    \/ \E w \in Workers : StartLock(w)
    \/ \E w \in Workers : StartPrint(w)
    \/ \E w \in Workers : InitRun(w)
    \/ \E w \in Workers : Loop(w)
    \/ \E w \in Workers : Eval(w)
    \/ \E w \in Workers : AppendValidate(w)
    \/ \E w \in Workers : AppendTrain(w)
    \/ \E w \in Workers : IterLock(w)
    \/ \E w \in Workers : IterPrint(w)
    \/ \E w \in Workers : Shuffle(w)
    \/ \E w \in Workers : Sweep(w)
    \/ \E w \in Workers : Update(w)
    \/ \E w \in Workers : Save(w)
    \/ \E w \in Workers : EndLock(w)
    \/ \E w \in Workers : EndPrint(w)
    \/ \E w \in Workers : Interrupt(w)

\* ------------------------------------------------------- initial states
\* The state before line 256, for a configuration in C: a command line, the
\* input files, the interrupts to come and the values of the random draws.
InitWith(C) ==
    /\ \E c \in C :
         /\ args = c.args
         /\ fs = c.fs
         /\ intr = c.intr
         /\ draws = c.draws
    /\ saved = << >>
    /\ console = {}
    /\ spc = "params"
    /\ experiments = << >>
    /\ train = << >>
    /\ validate = << >>
    /\ handler = "default"
    /\ tasks = << >>
    /\ lock = 0
    /\ tr = [ w \in Workers |-> [ Fresh(<< >>, << >>) EXCEPT !.pc = "unborn" ] ]
    /\ started = << >>

Half == <<1, 2>>
One == <<1, 1>>
Samples(n) == [ i \in 1 .. n |-> i ]

\* One Trainer run on one worker: every stopping configuration.
TrainerArgs ==
    [ momentum : { Zero }, ratio : { << Half >> }, batch : { << Inf >> },
      hidden : { << 3 >> },
      generations : { Inf } \cup 0 .. MaxGen * FloatUnit,
      stop : { <<NegInf, 1>>, Zero, Half, One },
      validate : BOOLEAN, save : BOOLEAN, dump : BOOLEAN,
      threads : { 1 },
      default_ratio : { <<1, 10>> }, default_batch : { 10 * FloatUnit },
      default_hidden : { 100 } ]

TrainerCfgs ==
    [ args : TrainerArgs,
      fs : [ input : { Samples(1) }, validate : { Samples(1) } ],
      intr : { MaxInterrupts },
      draws : [ weights : { { One } }, deltas : { { One } } ] ]

Init == InitWith(TrainerCfgs)

Spec == Init /\ [][Next]_vars

\* A few Trainer configurations that reach every position of mlp.
CoverCfgs ==
    { c \in TrainerCfgs :
        /\ c.args.dump /\ c.args.validate /\ c.args.save
        /\ c.args.stop = <<NegInf, 1>>
        /\ c.args.generations \in { FloatUnit, Inf } }

\* One generation of one run: the momentum, the learning rate, the batch size
\* (every multiple of 1/FloatUnit up to one above the largest training set, and
\* infinite), the training set size, the initial weight and the deltas vary.
UpdateArgs ==
    [ momentum : { Zero, Half }, ratio : { << Half >> },
      batch : { << b >> : b \in { Inf } \cup 1 .. (MaxSamples + 1) * FloatUnit },
      hidden : { << 3 >> },
      generations : { FloatUnit },
      stop : { <<NegInf, 1>> },
      validate : { FALSE }, save : { FALSE }, dump : { FALSE },
      threads : { 1 },
      default_ratio : { <<1, 10>> }, default_batch : { 10 * FloatUnit },
      default_hidden : { 100 } ]

UpdateCfgs ==
    [ args : UpdateArgs,
      fs : [ input : { Samples(n) : n \in 1 .. MaxSamples },
             validate : { Samples(1) } ],
      intr : { 0 },
      draws : [ weights : { { One, <<-1, 2>> } },
                deltas : { { One, <<-2, 1>> } } ] ]

\* The experiment list: every -ratio, -batch and -hidden list up to MaxListLen
\* entries, repeated and empty ones included.
SeqsUpTo(S, n) == UNION { [ 1 .. k -> S ] : k \in 0 .. n }

ExperimentArgs ==
    [ momentum : { Zero },
      ratio : SeqsUpTo({ Half, One }, MaxListLen),
      batch : SeqsUpTo({ FloatUnit, FloatUnit + 1, Inf }, MaxListLen),
      hidden : SeqsUpTo({ 3, 4 }, MaxListLen),
      generations : { FloatUnit },
      stop : { <<NegInf, 1>> },
      validate : { FALSE }, save : { FALSE }, dump : { TRUE },
      threads : { 1 },
      default_ratio : { <<1, 10>> }, default_batch : { 10 * FloatUnit },
      default_hidden : { 100 } ]

ExperimentCfgs ==
    [ args : ExperimentArgs,
      fs : [ input : { Samples(1) }, validate : { Samples(1) } ],
      intr : { 0 },
      draws : [ weights : { { One } }, deltas : { { One } } ] ]

InitExperiments == InitWith(ExperimentCfgs)

\* The module-level code up to the creation of the pool.
NextExperiments == SBuild \/ SRead \/ SDedup

SpecExperiments == InitExperiments /\ [][NextExperiments]_vars

\* Several runs on a pool of 1 .. MaxThreads workers, with status lines on: two
\* or three distinct combinations, one of the lists with a repeated entry.
PoolArgs ==
    [ momentum : { Zero },
      ratio : { << Half, One, Half >>, << Half, One, <<3, 2>> >> },
      batch : { << Inf >> }, hidden : { << 3 >> },
      generations : { FloatUnit },
      stop : { Zero },
      validate : { FALSE }, save : { FALSE }, dump : { TRUE },
      threads : 1 .. MaxThreads,
      default_ratio : { <<1, 10>> }, default_batch : { 10 * FloatUnit },
      default_hidden : { 100 } ]

PoolCfgs ==
    [ args : PoolArgs,
      fs : [ input : { Samples(1) }, validate : { Samples(1) } ],
      intr : { 1 },
      draws : [ weights : { { One } }, deltas : { { One } } ] ]

InitPool == InitWith(PoolCfgs \cup CoverCfgs)

SpecPool == InitPool /\ [][Next]_vars

\* Two runs over a training set of 2 .. MaxSamples samples, with and without
\* a validation file, on one worker; for two samples also on more workers.
ShuffleArgs ==
    [ momentum : { Zero }, ratio : { << Half, One >> },
      batch : { << Inf >> }, hidden : { << 3 >> },
      generations : { FloatUnit },
      stop : { <<NegInf, 1>> },
      validate : BOOLEAN, save : { FALSE }, dump : { FALSE },
      threads : 1 .. MaxThreads,
      default_ratio : { <<1, 10>> }, default_batch : { 10 * FloatUnit },
      default_hidden : { 100 } ]

ShuffleCfgs ==
    { c \in [ args : ShuffleArgs,
              fs : [ input : { Samples(n) : n \in 2 .. MaxSamples },
                     validate : { Samples(2) } ],
              intr : { 0 },
              draws : [ weights : { { One } }, deltas : { { One } } ] ] :
        c.args.threads = 1 \/ Len(c.fs.input) = 2 }

InitShuffle == InitWith(ShuffleCfgs \cup CoverCfgs)

SpecShuffle == InitShuffle /\ [][Next]_vars

\* Two runs that write result files, on 1 .. MaxThreads workers: the batch
\* sizes are a whole number and the next multiple of 1/FloatUnit above it.
FileArgs ==
    [ momentum : { Zero }, ratio : { << Half >> },
      batch : { << FloatUnit, FloatUnit + 1 >> }, hidden : { << 3 >> },
      generations : { FloatUnit },
      stop : { <<NegInf, 1>> },
      validate : { FALSE }, save : { TRUE }, dump : { FALSE },
      threads : 1 .. MaxThreads,
      default_ratio : { <<1, 10>> }, default_batch : { 10 * FloatUnit },
      default_hidden : { 100 } ]

FileCfgs ==
    [ args : FileArgs,
      fs : [ input : { Samples(1) }, validate : { Samples(1) } ],
      intr : { 0 },
      draws : [ weights : { { One } }, deltas : { { One } } ] ]

InitFiles == InitWith(FileCfgs \cup CoverCfgs)

SpecFiles == InitFiles /\ [][Next]_vars

\* Two runs on one or two workers, with one or two interrupts that reach the
\* Scheduler or a worker.
SignalArgs ==
    [ momentum : { Zero }, ratio : { << Half, One >> },
      batch : { << Inf >> }, hidden : { << 3 >> },
      generations : { FloatUnit },
      stop : { <<NegInf, 1>> },
      validate : { FALSE }, save : { FALSE }, dump : { FALSE },
      threads : { 1, 2 },
      default_ratio : { <<1, 10>> }, default_batch : { 10 * FloatUnit },
      default_hidden : { 100 } ]

SignalCfgs ==
    [ args : SignalArgs,
      fs : [ input : { Samples(1) }, validate : { Samples(1) } ],
      intr : { 1, 2 },
      draws : [ weights : { { One } }, deltas : { { One } } ] ]

InitSignals == InitWith(SignalCfgs \cup CoverCfgs)

\* The steps of the program and the interrupts of the Scheduler process.
NextSignals == Next \/ SInterrupt

SpecSignals == InitSignals /\ [][NextSignals]_vars

InitUpdate == InitWith(UpdateCfgs \cup CoverCfgs)

SpecUpdate == InitUpdate /\ [][Next]_vars

\* ------------------------------------------------------------------ claims
\* The positions of mlp after the generation loop.
Finalizing == { "save", "end_lock", "end_print", "return" }

\* Worker w has left the generation loop of its current (or last) mlp call.
LeftLoop(w) ==
    \/ tr[w].pc \in Finalizing
    \/ tr[w].pc = "idle" /\ tr[w].pos >= 0 /\ tr[w].exc = "none"

\* mlp has returned in worker w.
Returned(w) ==
    \/ tr[w].pc = "return"
    \/ tr[w].pc = "idle" /\ tr[w].pos >= 0 /\ tr[w].exc = "none"

EndLine(w) ==
    << "ENDING", tr[w].ratio, tr[w].batch, tr[w].hidden, tr[w].pos + 1,
       tr[w].size, tr[w].gen >>

\* C1: with a finite maximum G >= 1 and a stop threshold below every error
\* rate, a run that was not interrupted leaves the loop through
\* ExhaustedGenerations after exactly G generations: gen = G, the training
\* trajectory has G entries and the end line reports G.  (G is the integer the
\* program makes of the argument; for an integral argument it is the argument.)
C1_ExactlyG ==
    \A w \in Workers :
      ( /\ args.generations # Inf
        /\ args.generations >= FloatUnit
        /\ args.stop[1] < 0
        /\ LeftLoop(w)
        /\ tr[w].exit # "interrupted" )
      => /\ tr[w].exit = "exhausted"
         /\ tr[w].gen = IntOf(args.generations)
         /\ args.generations % FloatUnit = 0
              => tr[w].gen * FloatUnit = args.generations
         /\ Len(tr[w].train_errors) = tr[w].gen
         /\ Returned(w) /\ args.dump => EndLine(w) \in console
         /\ \A line \in console :
              line[1] = "ENDING" /\ intr = MaxInterrupts => line[7] = tr[w].gen

C1_Witness ==
    \E w \in Workers :
      /\ tr[w].pc = "return"
      /\ args.generations = 2 * FloatUnit
      /\ args.stop[1] < 0
      /\ args.dump
      /\ tr[w].exit = "exhausted"
      /\ tr[w].gen = 2
      /\ Len(tr[w].train_errors) = 2
      /\ EndLine(w) \in console

\* C2: mlp never raises to its caller, whatever the configuration and wherever
\* an interrupt arrives.
C2_NeverRaises == \A w \in Workers : tr[w].pc # "raised"

\* The positions inside the generation loop that C3 lists: the error
\* computation, the status print under the lock, the shuffle, the sweep and
\* the update.
LoopPositions == { "loop", "eval", "append_v", "append_t", "iter_lock",
                   "iter_print", "shuffle", "sweep", "update" }

\* C3: an interrupt that arrives inside the generation loop takes the Trainer
\* straight to Finalizing with the trajectories as they were and no exception;
\* the file is then written from them when output is enabled and the training
\* trajectory is non-empty, and the end line is printed (when reporting is on).
C3_InterruptFinalizes ==
    /\ [][ \A w \in Workers :
             ( intr' < intr /\ tr'[w] # tr[w] /\ tr[w].pc \in LoopPositions )
             => /\ tr'[w].pc = "save"
                /\ tr'[w].exc = "none"
                /\ tr'[w].train_errors = tr[w].train_errors
                /\ tr'[w].validate_errors = tr[w].validate_errors
                /\ saved' = saved
                /\ console' = console ]_vars
    /\ [] ( \A w \in Workers :
              ( tr[w].exit = "interrupted" /\ LeftLoop(w) /\ tr[w].pc # "save" )
              => /\ tr[w].exc = "none"
                 /\ IF args.save /\ Len(tr[w].train_errors) > 0
                    THEN /\ FileName(tr[w].ratio, tr[w].batch, tr[w].hidden)
                              \in DOMAIN saved
                         /\ saved[FileName(tr[w].ratio, tr[w].batch,
                                           tr[w].hidden)][1] = tr[w].train_errors
                    ELSE saved = << >>
                 /\ Returned(w) /\ args.dump => EndLine(w) \in console )

C3_Witness ==
    \E w \in Workers :
      /\ tr[w].exit = "interrupted"
      /\ tr[w].pc = "return"
      /\ args.save /\ args.dump
      /\ Len(tr[w].train_errors) = 1
      /\ tr[w].gen = 2
      /\ DOMAIN saved # {}
      /\ EndLine(w) \in console

\* C4: with the default unbounded maximum the Trainer keeps running
\* generations: it never reaches ExhaustedGenerations and leaves the loop only
\* through Converged or Interrupted (so nothing but an interrupt outside the
\* loop ends the run with an exception).
C4_UnboundedKeepsRunning ==
    args.generations = Inf =>
      \A w \in Workers :
        /\ tr[w].exit \in { "none", "converged", "interrupted" }
        /\ tr[w].pc = "raised" => tr[w].exc = "KeyboardInterrupt"

\* C8: a generation whose validation error rate (the training error rate
\* without a validation set) is <= the stop threshold ends the loop as
\* Converged with nothing appended and no weight update; with a threshold at
\* or above every error rate the run stops in generation 1 with empty
\* trajectories.
C8_ConvergedFirst ==
    /\ [][ \A w \in Workers :
             ( tr[w].pc = "eval" /\ tr'[w].pc # "eval" /\ intr' = intr )
             => /\ ~args.validate => tr'[w].validate_error = tr'[w].train_error
                /\ ( tr'[w].validate_error[1] * args.stop[2]
                       <= args.stop[1] * tr'[w].validate_error[2] )
                   => /\ tr'[w].pc = "save"
                      /\ tr'[w].exit = "converged"
                      /\ tr'[w].gen = tr[w].gen
                      /\ tr'[w].train_errors = tr[w].train_errors
                      /\ tr'[w].validate_errors = tr[w].validate_errors
                      /\ tr'[w].weights = tr[w].weights
                      /\ tr'[w].old = tr[w].old ]_vars
    /\ [] ( \A w \in Workers :
              tr[w].exit = "converged" => tr[w].pc \notin LoopPositions )
    /\ [] ( \A w \in Workers :
              ( /\ args.stop[1] >= args.stop[2]
                /\ args.generations # Inf
                /\ args.generations >= FloatUnit
                /\ LeftLoop(w)
                /\ tr[w].exit # "interrupted" )
              => /\ tr[w].exit = "converged"
                 /\ tr[w].gen = 1
                 /\ tr[w].train_errors = << >>
                 /\ tr[w].validate_errors = << >>
                 /\ tr[w].upds = << >>
                 /\ tr[w].weights = tr[w].old )

C8_Witness ==
    \E w \in Workers :
      /\ tr[w].pc = "return"
      /\ tr[w].exit = "converged"
      /\ args.validate
      /\ tr[w].gen = 2
      /\ Len(tr[w].train_errors) = 1
      /\ RLeq(tr[w].validate_error, args.stop)
      /\ ~RLeq(tr[w].train_error, args.stop)

RECURSIVE SumSeq(_)
SumSeq(q) == IF Len(q) = 0 THEN Zero ELSE RAdd(q[1], SumSeq(Tail(q)))

\* Worker w has completed the sweep of its current generation.
GenerationDone(w) ==
    /\ tr[w].gen >= 1
    /\ tr[w].pc \in { "loop" } \cup Finalizing
    /\ tr[w].exit \in { "none", "exhausted" }
    /\ Len(tr[w].deltas) = Len(tr[w].train)

\* C9: with momentum 0 and a batch size equal to the number of samples (or
\* infinite) a generation makes exactly one update, and it is plain gradient
\* descent: new_weights = weights - ratio * (sum of all deltas / samples).
C9_FullBatchGradientDescent ==
    \A w \in Workers :
      ( /\ args.momentum = Zero
        /\ tr[w].batch \in { Inf, Len(tr[w].train) }
        /\ GenerationDone(w) )
      => /\ Len(tr[w].upds) = 1
         /\ tr[w].upds[1].count = Len(tr[w].train)
         /\ tr[w].upds[1].new_weights =
              RSub(tr[w].upds[1].weights,
                   RMul(tr[w].ratio,
                        RDivInt(SumSeq(tr[w].deltas), Len(tr[w].train))))
         /\ tr[w].weights = tr[w].upds[1].new_weights
         /\ tr[w].old = tr[w].upds[1].weights

C9_Witness ==
    \E w \in Workers :
      /\ args.momentum = Zero
      /\ tr[w].batch = Len(tr[w].train)
      /\ Len(tr[w].train) = 3
      /\ GenerationDone(w)
      /\ Len(tr[w].upds) = 1
      /\ tr[w].weights # tr[w].old

\* The plain gradient descent step of update record u.
PlainStep(u, ratio) ==
    RSub(u.weights, RMul(ratio, RDivInt(u.accum, u.count)))

\* C10 as stated: on the first update of a run the momentum term contributes
\* nothing, for every momentum: new = weights - rate * (accum / count).
C10_NoMomentumOnFirstUpdate ==
    \A w \in Workers :
      ( tr[w].gen = 1 /\ Len(tr[w].upds) >= 1 )
      => tr[w].upds[1].new_weights = PlainStep(tr[w].upds[1], tr[w].ratio)

\* C10 as amended: on the first update of a run old_weights is the current
\* weights, and the momentum term contributes momentum * weights:
\* new = weights + momentum * weights - rate * (accum / count); the
\* contribution is zero exactly when momentum * weights is zero.
C10_FirstUpdate ==
    \A w \in Workers :
      ( tr[w].gen = 1 /\ Len(tr[w].upds) >= 1 )
      => LET u == tr[w].upds[1]
         IN  /\ u.old = u.weights
             /\ u.new_weights =
                  RAdd(PlainStep(u, tr[w].ratio), RMul(args.momentum, u.weights))
             /\ ( u.new_weights = PlainStep(u, tr[w].ratio) )
                  <=> ( RMul(args.momentum, u.weights) = Zero )

C10_Witness ==
    \E w \in Workers :
      /\ tr[w].gen = 1
      /\ Len(tr[w].upds) >= 1
      /\ args.momentum = Half
      /\ tr[w].upds[1].weights = <<-1, 2>>
      /\ tr[w].upds[1].new_weights # PlainStep(tr[w].upds[1], tr[w].ratio)

Range(q) == { q[i] : i \in 1 .. Len(q) }

\* The position at which x is first seen in list q.
FirstAt(q, x) == CHOOSE i \in 1 .. Len(q) : q[i] = x /\ \A k \in 1 .. i - 1 : q[k] # x

\* e comes before f in the order in which the product first yields them.
SeenBefore(p, e, f) ==
    LET a == << FirstAt(p[1], e[1]), FirstAt(p[2], e[2]), FirstAt(p[3], e[3]) >>
        b == << FirstAt(p[1], f[1]), FirstAt(p[2], f[2]), FirstAt(p[3], f[3]) >>
    IN  \/ a[1] < b[1]
        \/ a[1] = b[1] /\ a[2] < b[2]
        \/ a[1] = b[1] /\ a[2] = b[2] /\ a[3] < b[3]

\* C5: the experiment list is the one combination when the three lists are
\* singletons and the full Cartesian product otherwise; after deduplication it
\* holds every distinct combination exactly once, in first-seen order.
C5_ExperimentList ==
    LET p == Params(args)
        n1 == Len(p[1])
        n2 == Len(p[2])
        n3 == Len(p[3])
        all == { << r, b, h >> : r \in Range(p[1]), b \in Range(p[2]),
                                 h \in Range(p[3]) }
    IN  /\ spc \in { "read", "dedup" } =>
             IF n1 = 1 /\ n2 = 1 /\ n3 = 1
             THEN experiments = << << p[1][1], p[2][1], p[3][1] >> >>
             ELSE /\ Len(experiments) = n1 * n2 * n3
                  /\ \A i \in 1 .. n1 : \A j \in 1 .. n2 : \A k \in 1 .. n3 :
                       experiments[(i - 1) * n2 * n3 + (j - 1) * n3 + k]
                         = << p[1][i], p[2][j], p[3][k] >>
        /\ spc = "pool" =>
             /\ Range(experiments) = all
             /\ Len(experiments) = Cardinality(all)
             /\ \A i, j \in 1 .. Len(experiments) :
                  i < j => /\ experiments[i] # experiments[j]
                           /\ SeenBefore(p, experiments[i], experiments[j])

C5_Witness ==
    /\ spc = "pool"
    /\ Len(args.ratio) = 2 /\ Len(args.batch) = 2 /\ Len(args.hidden) = 1
    /\ args.ratio[1] = args.ratio[2]
    /\ args.batch[1] # args.batch[2]
    /\ Len(experiments) = 2

\* Worker w is executing mlp.
InMlp(w) == tr[w].pc \notin { "unborn", "idle", "return", "raised", "dead" }

\* C6: every combination of the deduplicated list is run by exactly one mlp call
\* (none skipped, none run twice), called with its position and the length of
\* the list, and the Scheduler passes its wait and prints 'done' only when
\* every run has finished.
C6_EveryTaskOnce ==
    /\ \A k \in 1 .. Len(started) :
         /\ started[k].pos \in 0 .. Len(experiments) - 1
         /\ started[k].e = experiments[started[k].pos + 1]
         /\ started[k].size = Len(experiments)
         /\ \A m \in 1 .. Len(started) :
              m # k => started[m].pos # started[k].pos
    /\ ( spc \in { "print", "exit" } \/ << "done" >> \in console )
       => /\ \A i \in 1 .. Len(experiments) :
               \E k \in 1 .. Len(started) : started[k].pos = i - 1
          /\ Len(started) = Len(experiments)
          /\ \A w \in Workers : ~InMlp(w) /\ tr[w].pc \notin { "return", "raised" }

C6_Witness ==
    /\ spc = "exit"
    /\ << "done" >> \in console
    /\ Len(experiments) = 3
    /\ Len(started) = 3
    /\ args.threads = 2
    /\ \A w \in Workers : tr[w].pos >= 0

\* The positions inside a `with lock:` body, and those waiting to enter one.
PrintPositions == { "start_print", "iter_print", "end_print" }
LockWait == { "start_lock", "iter_lock", "end_lock" }

\* C7: every status line of a Trainer is printed by the worker that holds the
\* lock; the lock is held by at most one worker, exactly while that worker is
\* inside one print, and released when the print is left (also by an
\* interrupt), so it is never held while computing; and whenever the lock is
\* held the holder's next step is possible and frees it, so that no worker
\* waits on a lock that is never released.
C7_ConsoleLock ==
    /\ [] ( /\ lock \in { 0 } \cup Workers
            /\ \A w \in Workers : lock = w <=> tr[w].pc \in PrintPositions
            /\ lock # 0 =>
                 ENABLED ( /\ \/ StartPrint(lock) \/ IterPrint(lock)
                              \/ EndPrint(lock)
                           /\ lock' = 0 ) )
    /\ [][ /\ \A line \in console' \ console :
                line # << "done" >>
                => /\ lock # 0
                   /\ tr[lock].pc \in PrintPositions
                   /\ line[5] = tr[lock].pos + 1
                   /\ lock' = 0
           /\ lock' # lock /\ lock' # 0 => lock = 0
           /\ \A w \in Workers :
                tr[w].pc \in PrintPositions /\ tr'[w].pc # tr[w].pc
                => lock' = 0 ]_vars

C7_Witness ==
    \E v, w \in Workers :
      /\ v # w
      /\ lock = v
      /\ tr[v].pc = "iter_print"
      /\ tr[w].pc = "end_lock"

\* The whole-number ceiling of n / b for b >= 1.
CeilDiv(n, b) == (n + b - 1) \div b

\* The deltas of the samples a + 1 .. b of the current sweep, summed.
SumDeltas(w, a, b) == SumSeq(SubSeq(tr[w].deltas, a + 1, b))

\* The sample at which update k of the current sweep began accumulating.
UpdFrom(w, k) == IF k = 1 THEN 0 ELSE tr[w].upds[k - 1].upto

\* Worker w is inside the sweep of a generation.
InSweep(w) == tr[w].gen >= 1 /\ tr[w].pc \in { "sweep", "update" }

\* C11: within one generation over N samples with batch size b >= 1 (b the
\* integer the program makes of the argument, or infinite) an update is made
\* exactly when the count since the last update reaches b or the sweep reaches
\* its last sample.  A completed sweep has made ceil(N / b) updates (one when b
\* is infinite or b >= N); the updates accumulate consecutive, disjoint runs of
\* samples that cover 1 .. N; each divides by the number of samples accumulated
\* for it (b, or the remainder for the last one); after each update old holds
\* the weights from before it and the accumulator and the count are zero.
C11_BatchUpdates ==
    /\ [] ( \A w \in Workers :
              LET N == Len(tr[w].train)
                  b == tr[w].batch
                  U == tr[w].upds
              IN  ( b >= 1 /\ ( InSweep(w) \/ GenerationDone(w) ) )
                  => /\ \A k \in 1 .. Len(U) :
                          /\ U[k].count = IF k * b <= N THEN b ELSE N - (k - 1) * b
                          /\ U[k].count >= 1
                          /\ U[k].upto = UpdFrom(w, k) + U[k].count
                          /\ U[k].accum = SumDeltas(w, UpdFrom(w, k), U[k].upto)
                          /\ U[k].new_weights =
                               RAdd(U[k].weights,
                                    RSub(RMul(args.momentum, U[k].old),
                                         RMul(tr[w].ratio,
                                              RDivInt(U[k].accum, U[k].count))))
                          /\ k > 1 => /\ U[k].old = U[k - 1].weights
                                      /\ U[k].weights = U[k - 1].new_weights
                     /\ Len(U) >= 1 => /\ tr[w].old = U[Len(U)].weights
                                       /\ tr[w].weights = U[Len(U)].new_weights
                     /\ tr[w].pc = "sweep" =>
                          /\ tr[w].j < N
                          /\ tr[w].batch_size < b
                          /\ tr[w].batch_size = tr[w].j - UpdFrom(w, Len(U) + 1)
                          /\ tr[w].accum = SumDeltas(w, UpdFrom(w, Len(U) + 1), tr[w].j)
                     /\ tr[w].pc = "update" =>
                          tr[w].batch_size = b \/ tr[w].j = N
                     /\ GenerationDone(w) =>
                          /\ Len(U) = IF b = Inf \/ b >= N THEN 1 ELSE CeilDiv(N, b)
                          /\ U[Len(U)].upto = N )
    /\ [][ \A w \in Workers :
             ( tr[w].pc = "update" /\ tr'[w] # tr[w] /\ intr' = intr )
             => /\ tr'[w].old = tr[w].weights
                /\ tr'[w].accum = Zero
                /\ tr'[w].batch_size = 0
                /\ Len(tr'[w].upds) = Len(tr[w].upds) + 1 ]_vars

C11_Witness ==
    \E w \in Workers :
      /\ GenerationDone(w)
      /\ Len(tr[w].train) = 3
      /\ tr[w].batch = 2
      /\ Len(tr[w].upds) = 2
      /\ tr[w].upds[2].count = 1
      /\ tr[w].upds[1].accum # tr[w].upds[2].accum
      /\ tr[w].old # tr[w].weights

\* The number of positions of list q that hold x.
Count(q, x) == Cardinality({ i \in 1 .. Len(q) : q[i] = x })

\* List a holds the samples of list b, each as often as b does.
IsPermutation(a, b) ==
    /\ Len(a) = Len(b)
    /\ \A x \in Range(a) \cup Range(b) : Count(a, x) = Count(b, x)

\* C12: a Trainer changes the dataset only by reordering it in place, once per
\* generation before the sweep: the list of every worker is at all times a
\* permutation of the input (nothing added, dropped, duplicated or altered); a
\* shuffle changes the list of the worker that makes it and nothing else, not
\* the parent's list and not the list of any other worker.
C12_ShuffleIsPrivate ==
    /\ [] ( /\ spc \notin { "params", "read" } =>
                 /\ train = fs.input
                 /\ validate = IF args.validate THEN fs.validate ELSE fs.input
            /\ \A w \in Workers :
                 tr[w].pc # "unborn" =>
                   /\ IsPermutation(tr[w].train, fs.input)
                   /\ IF args.validate
                      THEN tr[w].validate = fs.validate
                      ELSE tr[w].validate = tr[w].train )
    /\ [][ \A w \in Workers :
             ( tr[w].pc # "unborn" /\ tr'[w].train # tr[w].train )
             => /\ tr[w].pc = "shuffle"
                /\ tr'[w].gen = tr[w].gen
                /\ tr'[w].j = 0
                /\ IsPermutation(tr'[w].train, tr[w].train)
                /\ train' = train /\ validate' = validate
                /\ \A v \in Workers \ { w } : tr'[v] = tr[v] ]_vars

C12_Witness ==
    \E v, w \in Workers :
      /\ v # w
      /\ tr[v].pc = "sweep" /\ tr[w].pc = "sweep"
      /\ tr[v].train # train
      /\ tr[w].train = train
      /\ tr[v].validate # validate

\* Worker w has passed the writing of the result file (217-226) of its run.
PastSave(w) == tr[w].pc \in { "end_lock", "end_print", "return" }

\* The name of the result file of the run of worker w.
FileOf(w) == FileName(tr[w].ratio, tr[w].batch, tr[w].hidden)

\* C13: Finalizing writes the result file if and only if output is enabled and
\* at least one generation was recorded; the first line of the file has one
\* training error per recorded generation; a second line is present exactly
\* when a validation set is configured, and then has as many values as the
\* first line.
C13_ResultFile ==
    \A w \in Workers :
      PastSave(w) =>
        /\ FileOf(w) \in DOMAIN saved
             <=> ( args.save /\ Len(tr[w].train_errors) >= 1 )
        /\ FileOf(w) \in DOMAIN saved =>
             LET file == saved[FileOf(w)]
             IN  /\ file[1] = tr[w].train_errors
                 /\ Len(file) = IF args.validate THEN 2 ELSE 1
                 /\ args.validate => Len(file[2]) = Len(file[1])

\* The name of the result file of a run of combination e: the batch size is
\* truncated (127-128) before the name is formatted (219).
FileOfCombination(e) == FileName(e[1], BatchOf(e[2]), e[3])

\* C14: result files are one per combination: any two distinct combinations of
\* the deduplicated experiment list are written to distinct file names, so
\* that no run rewrites a file that another run has written.
C14_OneFilePerCombination ==
    /\ [] ( spc \notin { "params", "read", "dedup" } =>
              \A i, j \in 1 .. Len(experiments) :
                experiments[i] # experiments[j]
                => FileOfCombination(experiments[i])
                     # FileOfCombination(experiments[j]) )
    /\ [][ \A f \in DOMAIN saved :
             f \in DOMAIN saved' /\ saved'[f] = saved[f] ]_vars

\* The tasks that have been handed to a worker and have not reported yet.
InProgress == { i \in 1 .. Len(tasks) : tasks[i] = "running" }

\* The workers that hold a task: in mlp, or about to report its outcome.
Busy == { w \in Workers : InMlp(w) \/ tr[w].pc \in { "return", "raised" } }

\* C15: with a pool of T workers each worker runs at most one Trainer at a
\* time and runs it to its end before it takes another task, so at most T runs
\* are in progress; the tasks are handed out one at a time in the order of the
\* deduplicated list: the task at position p + 1 is never started before the
\* task at position p.
C15_OneTaskPerWorkerInOrder ==
    /\ [] ( /\ \A k \in 1 .. Len(started) : started[k].pos = k - 1
            /\ Cardinality(InProgress) <= args.threads
            /\ Cardinality(InProgress) = Cardinality(Busy)
            /\ \A i \in InProgress :
                 /\ \E w \in Busy : tr[w].pos = i - 1
                 /\ \A v, w \in Busy :
                      tr[v].pos = i - 1 /\ tr[w].pos = i - 1 => v = w
            /\ \A i \in 1 .. Len(tasks) :
                 tasks[i] = "queued" <=> i > Len(started) )
    /\ [][ /\ Len(started') <= Len(started) + 1
           /\ \A w \in Workers :
                ( spc # "pool" /\ tr'[w].pos # tr[w].pos )
                => /\ tr[w].pc = "idle"
                   /\ tr'[w].pc = "start"
                   /\ tr'[w].pos = Len(started)
                   /\ tr[w].pos >= 0 =>
                        tasks[tr[w].pos + 1] \in { "ok", "failed" } ]_vars

C15_Witness ==
    /\ args.threads = 2
    /\ Len(experiments) = 3
    /\ Len(started) = 3
    /\ Cardinality(InProgress) = 2
    /\ tasks[2] = "ok"
    /\ tasks[1] = "running"
    /\ \A w \in Workers : InMlp(w)

\* The positions of an iteration before and after the trajectory is appended.
BeforeAppend == { "eval", "append_v", "append_t" }
AfterAppend == { "iter_lock", "iter_print", "shuffle", "sweep", "update", "loop" }

\* C17: the generation counter is incremented at the start of each iteration,
\* before the convergence check, so the training trajectory always has gen or
\* gen - 1 entries; a run that ends by ExhaustedGenerations reports (in its end
\* line) a generation count equal to the trajectory length, and one that ends
\* by Converged reports one more than the trajectory length (1 with an empty
\* trajectory when it converges at once).
C17_GenVersusTrajectory ==
    /\ [] ( \A w \in Workers :
              /\ Len(tr[w].train_errors) \in { tr[w].gen, tr[w].gen - 1 }
              /\ tr[w].pc \in BeforeAppend =>
                   Len(tr[w].train_errors) = tr[w].gen - 1
              /\ tr[w].pc \in AfterAppend =>
                   Len(tr[w].train_errors) = tr[w].gen
              /\ ( LeftLoop(w) /\ tr[w].exit = "exhausted" ) =>
                   tr[w].gen = Len(tr[w].train_errors)
              /\ ( LeftLoop(w) /\ tr[w].exit = "converged" ) =>
                   /\ tr[w].gen = Len(tr[w].train_errors) + 1
                   /\ tr[w].gen = 1 => tr[w].train_errors = << >>
              /\ ( Returned(w) /\ args.dump ) =>
                   << "ENDING", tr[w].ratio, tr[w].batch, tr[w].hidden,
                      tr[w].pos + 1, tr[w].size,
                      Len(tr[w].train_errors)
                        + ( IF tr[w].exit = "converged" THEN 1
                            ELSE IF tr[w].exit = "exhausted" THEN 0
                            ELSE tr[w].gen - Len(tr[w].train_errors) ) >>
                     \in console )
    /\ [][ \A w \in Workers :
             ( tr[w].pc = "loop" /\ tr'[w].pc = "eval" )
             => /\ tr'[w].gen = tr[w].gen + 1
                /\ tr'[w].train_errors = tr[w].train_errors ]_vars

C17_Witness ==
    \E w \in Workers :
      /\ tr[w].pc = "return"
      /\ tr[w].exit = "converged"
      /\ args.dump
      /\ tr[w].gen = 1
      /\ tr[w].train_errors = << >>
      /\ << "ENDING", tr[w].ratio, tr[w].batch, tr[w].hidden, tr[w].pos + 1,
            tr[w].size, 1 >> \in console

\* The batch size of the combination worker w runs, as given on the command
\* line (in units of 1 / FloatUnit).
RawBatch(w) == experiments[tr[w].pos + 1][2]

\* Worker w runs a combination with a positive batch size below 1.
FractionalBatch(w) ==
    /\ tr[w].pos >= 0
    /\ tr[w].pc \notin { "start", "idle", "dead" }
    /\ RawBatch(w) > 0 /\ RawBatch(w) < FloatUnit

\* C18: a finite batch size is truncated to an integer before use; a positive
\* batch size below 1 becomes 0, which the count (compared after it has been
\* incremented) never equals, so that the generation makes exactly one update,
\* at the end of the sweep, dividing the sum of all deltas by the number of
\* samples.
C18_FractionalBatch ==
    \A w \in Workers :
      FractionalBatch(w) =>
        LET N == Len(tr[w].train)
            U == tr[w].upds
        IN  /\ tr[w].batch = 0
            /\ tr[w].pc = "sweep" =>
                 /\ U = << >>
                 /\ tr[w].batch_size = tr[w].j
                 /\ tr[w].j < N
            /\ tr[w].pc = "update" =>
                 /\ U = << >>
                 /\ tr[w].j = N
                 /\ tr[w].batch_size = N
                 /\ tr[w].batch_size # tr[w].batch
            /\ GenerationDone(w) =>
                 /\ Len(U) = 1
                 /\ U[1].count = N
                 /\ U[1].upto = N
                 /\ U[1].accum = SumSeq(tr[w].deltas)
                 /\ U[1].new_weights =
                      RAdd(U[1].weights,
                           RSub(RMul(args.momentum, U[1].old),
                                RMul(tr[w].ratio,
                                     RDivInt(SumSeq(tr[w].deltas), N))))

C18_Witness ==
    \E w \in Workers :
      /\ FractionalBatch(w)
      /\ GenerationDone(w)
      /\ Len(tr[w].train) = 3
      /\ tr[w].batch = 0
      /\ Len(tr[w].upds) = 1
      /\ tr[w].upds[1].count = 3

\* The step delivers an interrupt to the Scheduler process, which is blocked
\* in the wait (295).
InterruptsScheduler == spc = "wait" /\ intr' < intr /\ tr' = tr

\* The step delivers an interrupt to worker w while the Scheduler is blocked.
InterruptsWorker(w) == spc = "wait" /\ intr' < intr /\ tr'[w] # tr[w]

\* C16: the Scheduler disables its interrupt handling after the tasks have
\* been dispatched and before it blocks on completion; an interrupt delivered
\* while it is blocked neither ends the wait nor terminates the Scheduler; an
\* in-flight Trainer absorbs it (it stops at its current generation and goes on
\* to finalize, no exception leaves it and its task is not lost); and the
\* Scheduler passes the wait only when all tasks, those not yet started at the
\* time of the interrupt included, have been run.
C16_InterruptWhileWaiting ==
    /\ [] ( /\ spc \in { "wait", "print", "exit" } => handler = "ignore"
            /\ handler = "ignore" => Len(tasks) = Len(experiments)
            /\ spc = "killed" => handler = "default"
            /\ spc \in { "print", "exit" } =>
                 /\ Len(started) = Len(experiments)
                 /\ \A i \in 1 .. Len(tasks) : tasks[i] \in { "ok", "failed" } )
    /\ [][ /\ handler' # handler => spc = "sigign" /\ spc' = "wait"
           /\ InterruptsScheduler => /\ spc' = "wait"
                                     /\ tasks' = tasks
           /\ \A w \in Workers :
                InterruptsWorker(w)
                => /\ tr'[w].pc = "save"
                   /\ tr'[w].exc = "none"
                   /\ tr'[w].gen = tr[w].gen
                   /\ tr'[w].train_errors = tr[w].train_errors ]_vars
    /\ [] ( spc = "wait" =>
              \A i \in 1 .. Len(tasks) : tasks[i] # "lost" )

====
